---------------------------- MODULE Spec2Model ----------------------------
(***************************************************************************)
(* Model of src/encryption_functions.py: encrypt_message and               *)
(* decrypt_message (AES in CTR mode under a stretched key, with an HMAC    *)
(* over the ciphertext).                                                   *)
(*                                                                         *)
(* A str is a sequence of code points, a bytes object a sequence of        *)
(* 0..255.  None is the empty tuple and a present value x is <<x>>, so     *)
(* that the two components of decrypt_message's result can be compared.    *)
(***************************************************************************)
EXTENDS Integers, Sequences, FiniteSets, TLC

\* ------------------------------------------------------------------------
\* Bounds of the model
\* ------------------------------------------------------------------------

\* Longest message, in characters.
MaxMsgLen == 2

\* Largest iteration count the calibration of generate_hash reaches.
MaxIter == 2

\* Number of concurrent callers in ConcSpec.
NumCallers == 2

\* ------------------------------------------------------------------------
\* Program constants
\* ------------------------------------------------------------------------

BLOCK_SIZE == 16

HMAC_SIZE == 32

\* Positions of the fields decrypt_message reads (Python, zero based).
ITER_INDEX == 0

SALT_INDEX == 2

DATA_INDEX == 3

\* ------------------------------------------------------------------------
\* Python values
\* ------------------------------------------------------------------------

None == <<>>

Some(x) == <<x>>

\* s[:n]
Take(s, n) == SubSeq(s, 1, IF n < Len(s) THEN n ELSE Len(s))

\* s[n:]
Drop(s, n) == SubSeq(s, n + 1, Len(s))

RECURSIVE SumSeq(_)
SumSeq(s) == IF s = <<>> THEN 0 ELSE Head(s) + SumSeq(Tail(s))

RECURSIVE BitXor(_, _)
BitXor(a, b) ==
    IF a = 0 THEN b
    ELSE IF b = 0 THEN a
    ELSE (((a % 2) + (b % 2)) % 2) + (2 * BitXor(a \div 2, b \div 2))

\* ---- str.encode() / bytes.decode(): UTF-8, strict ----------------------

EncodeChar(cp) ==
    IF cp < 128 THEN <<cp>>
    ELSE IF cp < 2048 THEN <<192 + (cp \div 64), 128 + (cp % 64)>>
    ELSE IF cp < 65536
         THEN <<224 + (cp \div 4096), 128 + ((cp \div 64) % 64), 128 + (cp % 64)>>
    ELSE <<240 + (cp \div 262144), 128 + ((cp \div 4096) % 64),
           128 + ((cp \div 64) % 64), 128 + (cp % 64)>>

RECURSIVE Encode(_)
Encode(s) == IF s = <<>> THEN <<>> ELSE EncodeChar(Head(s)) \o Encode(Tail(s))

\* Length of the UTF-8 sequence a lead byte starts; 0 for a byte that starts none.
Utf8Len(b) ==
    IF b < 128 THEN 1
    ELSE IF b >= 194 /\ b <= 223 THEN 2
    ELSE IF b >= 224 /\ b <= 239 THEN 3
    ELSE IF b >= 240 /\ b <= 244 THEN 4
    ELSE 0

\* The range allowed for the byte after lead byte b (overlong forms, surrogates
\* and code points above 0x10FFFF are rejected).
SecondLo(b) == IF b = 224 THEN 160 ELSE IF b = 240 THEN 144 ELSE 128

SecondHi(b) == IF b = 237 THEN 159 ELSE IF b = 244 THEN 143 ELSE 191

IsCont(b) == b >= 128 /\ b <= 191

\* Whether bs starts with one well-formed UTF-8 sequence.
Utf8Head(bs) ==
    LET n == Utf8Len(Head(bs)) IN
    /\ n > 0
    /\ Len(bs) >= n
    /\ n >= 2 => bs[2] >= SecondLo(bs[1]) /\ bs[2] <= SecondHi(bs[1])
    /\ n >= 3 => IsCont(bs[3])
    /\ n >= 4 => IsCont(bs[4])

RECURSIVE CanDecode(_)
CanDecode(bs) ==
    IF bs = <<>> THEN TRUE
    ELSE Utf8Head(bs) /\ CanDecode(Drop(bs, Utf8Len(Head(bs))))

DecodeChar(bs) ==
    LET n == Utf8Len(Head(bs)) IN
    IF n = 1 THEN bs[1]
    ELSE IF n = 2 THEN ((bs[1] - 192) * 64) + (bs[2] - 128)
    ELSE IF n = 3 THEN ((bs[1] - 224) * 4096) + ((bs[2] - 128) * 64) + (bs[3] - 128)
    ELSE ((bs[1] - 240) * 262144) + ((bs[2] - 128) * 4096)
         + ((bs[3] - 128) * 64) + (bs[4] - 128)

\* bytes.decode() of bytes that CanDecode.
RECURSIVE Decode(_)
Decode(bs) ==
    IF bs = <<>> THEN <<>>
    ELSE <<DecodeChar(bs)>> \o Decode(Drop(bs, Utf8Len(Head(bs))))

\* ---- bytes.hex() / bytes.fromhex() -------------------------------------

\* The lower-case hexadecimal digit of n in 0..15.
HexDigit(n) == IF n < 10 THEN 48 + n ELSE 87 + n

IsHexChar(c) ==
    \/ c >= 48 /\ c <= 57
    \/ c >= 97 /\ c <= 102
    \/ c >= 65 /\ c <= 70

HexVal(c) == IF c <= 57 THEN c - 48 ELSE IF c >= 97 THEN c - 87 ELSE c - 55

RECURSIVE Hex(_)
Hex(bs) ==
    IF bs = <<>> THEN <<>>
    ELSE <<HexDigit(Head(bs) \div 16), HexDigit(Head(bs) % 16)>> \o Hex(Tail(bs))

IsSpace(c) == c = 32 \/ (c >= 9 /\ c <= 13)

\* Whether bytes.fromhex(s) succeeds: pairs of hexadecimal digits of either
\* case, with white space allowed between the pairs.
RECURSIVE CanFromHex(_)
CanFromHex(s) ==
    IF s = <<>> THEN TRUE
    ELSE IF IsSpace(Head(s)) THEN CanFromHex(Tail(s))
    ELSE /\ Len(s) >= 2
         /\ IsHexChar(s[1])
         /\ IsHexChar(s[2])
         /\ CanFromHex(Drop(s, 2))

RECURSIVE FromHex(_)
FromHex(s) ==
    IF s = <<>> THEN <<>>
    ELSE IF IsSpace(Head(s)) THEN FromHex(Tail(s))
    ELSE <<(HexVal(s[1]) * 16) + HexVal(s[2])>> \o FromHex(Drop(s, 2))

\* ---- int() / str() -----------------------------------------------------

IsDigit(c) == c >= 48 /\ c <= 57

\* Whether int(s) succeeds: an optional sign and one or more decimal digits.
\* (White space around the number and underscores between digits, which
\* int() also accepts, do not occur in the envelopes of this model.)
IsIntLiteral(s) ==
    LET d == IF s # <<>> /\ Head(s) \in {43, 45} THEN Tail(s) ELSE s IN
    /\ d # <<>>
    /\ \A i \in 1..Len(d) : IsDigit(d[i])

RECURSIVE DigitsValue(_)
DigitsValue(d) ==
    IF d = <<>> THEN 0
    ELSE (DigitsValue(SubSeq(d, 1, Len(d) - 1)) * 10) + (d[Len(d)] - 48)

IntValue(s) ==
    IF Head(s) = 45 THEN 0 - DigitsValue(Tail(s))
    ELSE IF Head(s) = 43 THEN DigitsValue(Tail(s))
    ELSE DigitsValue(s)

\* str(n) for n >= 0.
RECURSIVE Str(_)
Str(n) == IF n < 10 THEN <<48 + n>> ELSE Str(n \div 10) \o <<48 + (n % 10)>>

\* ------------------------------------------------------------------------
\* Collaborators: hash_functions (hf), mac_functions (mf), Crypto.Cipher.AES
\* ------------------------------------------------------------------------

\* Width of the salt generate_hash draws.
SALT_SIZE == 16

\* The salts the random source can return.
Salts == {[i \in 1..SALT_SIZE |-> b] : b \in {17, 200}}

\* One application of the stretching hash: deterministic, fixed width.
Stretch(h, salt) == ((h * 7) + SumSeq(salt) + 1) % 251

RECURSIVE StretchN(_, _, _)
StretchN(n, h, salt) ==
    IF n <= 0 THEN h ELSE StretchN(n - 1, Stretch(h, salt), salt)

\* hf.find_hash: the stretching hash applied iter_counter times to the
\* password and the salt.  Deterministic.
find_hash(iter_counter, salt, password) ==
    StretchN(iter_counter, (SumSeq(Encode(password)) * 3) % 251, salt)

\* hf.generate_hash: the (iterations, salt, key) the calibration can end
\* with.  The iteration count depends on the machine's speed and the salt on
\* the random source; the key is the one find_hash replays from them.
generate_hash(secret_key) ==
    {<<n, salt, find_hash(n, salt, secret_key)>> : n \in 1..MaxIter, salt \in Salts}

\* mf.calculate_hmac: the keyed tag over the ciphertext, as 2 * HMAC_SIZE
\* lower-case hexadecimal digits.  The MAC is idealised as collision free: its
\* first HMAC_SIZE digits hold (secret, ciphertext) themselves, for the
\* lengths of this model, and every other digit mixes a checksum of them.
calculate_hmac(ciphertext, secret) ==
    LET key  == Encode(secret)
        body == <<Len(key)>> \o key \o <<Len(ciphertext)>> \o ciphertext
        chk  == SumSeq(body)
    IN  Hex([j \in 1..HMAC_SIZE |->
                IF j <= Len(body) /\ j <= HMAC_SIZE \div 2
                THEN body[j]
                ELSE ((chk * (j + 2)) + (j * 13)) % 256])

\* Counter.new(nbits=BLOCK_SIZE*8): a counter of nbits bits that starts at 1.
NewCounter == [nbits |-> BLOCK_SIZE * 8, initial_value |-> 1]

\* The i-th byte (from 0) of the key stream AES in CTR mode produces under
\* key from counter: byte i % BLOCK_SIZE of the encryption of the counter
\* block initial_value + i \div BLOCK_SIZE.
KeystreamByte(key, counter, i) ==
    LET block == counter.initial_value + (i \div BLOCK_SIZE)
        off   == i % BLOCK_SIZE
    IN  ((key * 131) + (block * 17) + (off * 29) + (key * off * 3)) % 256

\* AES.new(key, AES.MODE_CTR, counter=counter).encrypt(data), and .decrypt(data),
\* which is the same transformation.
CtrTransform(key, counter, data) ==
    [i \in 1..Len(data) |-> BitXor(data[i], KeystreamByte(key, counter, i - 1))]

\* ------------------------------------------------------------------------
\* encrypt_message
\* ------------------------------------------------------------------------

\* encrypt_message(message, secret_key) when generate_hash returned gh.
encrypt_message(message, secret_key, gh) ==
    LET iter_counter == gh[1]
        salt         == gh[2]
        key          == gh[3]
        ciphertext   == CtrTransform(key, NewCounter, Encode(message))
    IN  <<iter_counter, salt, ciphertext>>

\* ------------------------------------------------------------------------
\* decrypt_message
\* ------------------------------------------------------------------------

\* What a call ends with: a returned pair or a raised exception.
Return(msg, valid) == [kind |-> "return", exc |-> "", msg |-> msg, valid |-> valid]

Raise(exc) == [kind |-> "raise", exc |-> exc, msg |-> None, valid |-> None]

NoneNone == Return(None, None)

\* input[i] of Python (zero based) and whether it exists.
HasField(input, i) == i + 1 <= Len(input)

Field(input, i) == input[i + 1]

\* Lines 50-52: the first exception the three conversions raise, or "" when
\* none does.
ParseError(input) ==
    IF ~HasField(input, ITER_INDEX) THEN "IndexError"
    ELSE IF ~IsIntLiteral(Field(input, ITER_INDEX)) THEN "ValueError"
    ELSE IF ~HasField(input, SALT_INDEX) THEN "IndexError"
    ELSE IF ~CanFromHex(Field(input, SALT_INDEX)) THEN "ValueError"
    ELSE IF ~HasField(input, DATA_INDEX) THEN "IndexError"
    ELSE IF ~CanFromHex(Field(input, DATA_INDEX)) THEN "ValueError"
    ELSE ""

\* Line 50.
ParseIterCounter(input) == IntValue(Field(input, ITER_INDEX))

\* Line 51.
ParseSalt(input) == FromHex(Field(input, SALT_INDEX))

\* Faulty variant: the field is cut after HMAC_SIZE characters, not HMAC_SIZE bytes.
ParseCiphertext_CutChars(input) == FromHex(Drop(Field(input, DATA_INDEX), HMAC_SIZE))

\* Line 52: the bytes after the first HMAC_SIZE bytes.
ParseCiphertext(input) == Drop(FromHex(Field(input, DATA_INDEX)), HMAC_SIZE)

\* Faulty variant: the conversions stand inside the try, whose handler swallows what
\* they raise.
ParseFailure_InsideTry(exc) == NoneNone

\* Lines 50-52 stand before the try: what they raise reaches the caller.
ParseFailure(exc) == Raise(exc)

\* Lines 54-58: the bytes the cipher yields under the key derived from the
\* password.
DecryptedBytes(password, input) ==
    LET key == find_hash(ParseIterCounter(input), ParseSalt(input), password)
    IN  CtrTransform(key, NewCounter, ParseCiphertext(input))

\* Line 62: the first HMAC_SIZE characters of the field.
HmacReceived(input) == Take(Field(input, DATA_INDEX), HMAC_SIZE)

\* Line 63: the first HMAC_SIZE characters of the recomputed tag.
HmacValue(ciphertext, password) == Take(calculate_hmac(ciphertext, password), HMAC_SIZE)

\* Faulty variant: the received tag is compared with itself.
HmacValidity_Self(hmac_received, hmac_value) == hmac_received = hmac_received

\* Faulty variant: only the lengths of the two tags are compared.
HmacValidity_Length(hmac_received, hmac_value) == Len(hmac_received) = Len(hmac_value)

\* Line 69.
HmacValidity(hmac_received, hmac_value) == hmac_received = hmac_value

\* Faulty variant: the handler returns the bytes it could not decode.
DecodeFailure_Bytes(decrypted_msg) == Return(Some(decrypted_msg), None)

\* Lines 72-75: decode() raised inside the try.
DecodeFailure(decrypted_msg) == NoneNone

\* Lines 61-71.
DecodeAndVerify(password, input, decrypted_msg) ==
    IF ~CanDecode(decrypted_msg) THEN DecodeFailure(decrypted_msg)
    ELSE Return(Some(Decode(decrypted_msg)),
                Some(HmacValidity(HmacReceived(input),
                                  HmacValue(ParseCiphertext(input), password))))

decrypt_message(password, input) ==
    IF ParseError(input) # "" THEN ParseFailure(ParseError(input))
    ELSE DecodeAndVerify(password, input, DecryptedBytes(password, input))

\* The iteration counts decrypt_message hands to hf.find_hash (line 55).
FindHashCalls(password, input) ==
    IF ParseError(input) # "" THEN <<>> ELSE <<ParseIterCounter(input)>>

\* ------------------------------------------------------------------------
\* The caller's side: the envelope and what can happen to it in transit
\* ------------------------------------------------------------------------

\* The upper bound on the iteration count a recipient accepts.
IterationLimit == MaxIter + 1

\* A field decrypt_message does not read.
Unread == <<>>

\* The tag || ciphertext field: the tag computed with the sender's secret,
\* then the ciphertext, both in hexadecimal.
DataField(ciphertext, secret_key) ==
    calculate_hmac(ciphertext, secret_key) \o Hex(ciphertext)

\* The list of strings handed to decrypt_message for the output out of
\* encrypt_message.  "code" puts the fields where decrypt_message reads them;
\* "spec" is the three-field list (iterations, salt, tag || ciphertext).
Envelope(lay, out, secret_key) ==
    IF lay = "code"
    THEN <<Str(out[1]), Unread, Hex(out[2]), DataField(out[3], secret_key)>>
    ELSE <<Str(out[1]), Hex(out[2]), DataField(out[3], secret_key)>>

\* s with the character at position p (from 1) replaced by c.
SetChar(s, p, c) == [s EXCEPT ![p] = c]

\* field with bit number bit of ciphertext byte i (from 1) flipped.
FlipBit(field, i, bit) ==
    LET at  == 2 * (HMAC_SIZE + i)
        old == (HexVal(field[at - 1]) * 16) + HexVal(field[at])
        new == BitXor(old, 2 ^ bit)
    IN  SetChar(SetChar(field, at - 1, HexDigit(new \div 16)), at, HexDigit(new % 16))

\* field with the hexadecimal digit at position p replaced by the next one.
NextDigit(field, p) == SetChar(field, p, HexDigit((HexVal(field[p]) + 1) % 16))

\* ------------------------------------------------------------------------
\* One message from sender to recipient
\* ------------------------------------------------------------------------

MsgAlphabet == {65, 233}

Messages == UNION {[1..n -> MsgAlphabet] : n \in 0..MaxMsgLen}

Secrets == {<<97>>, <<98>>}

Passwords == Secrets \cup {<<65>>}

\* Iteration fields put in place of the sender's: above the limit, not a
\* number, negative, empty.
IterFields == {Str(IterationLimit + 1), <<120>>, <<45, 49>>, <<>>}

NoTamper == [kind |-> "none", pos |-> 0, bit |-> 0]

Pending == [kind |-> "pending", exc |-> "", msg |-> None, valid |-> None]

\* One message in transit (Spec).
VARIABLES phase, message, secret, encOut, layout, input, tamper, password, ret,
          kdfCalls

\* Callers running encrypt_message and decrypt_message line by line (ConcSpec).
VARIABLES pc, call, frame, drawn, out

msgVars == <<phase, message, secret, encOut, layout, input, tamper, password, ret,
             kdfCalls>>

callVars == <<pc, call, frame, drawn, out>>

vars == <<msgVars, callVars>>

Callers == 1..NumCallers

\* The local variables of one call.
EmptyFrame ==
    [iter_counter |-> 0, salt |-> <<>>, ciphertext |-> <<>>, counter |-> <<>>,
     key |-> 0, decrypted_msg |-> <<>>, hmac_received |-> <<>>, hmac_value |-> <<>>]

NoCall == [op |-> "", password |-> <<>>, input |-> <<>>, message |-> <<>>,
           secret_key |-> <<>>]

CallsIdle ==
    /\ pc = [c \in Callers |-> "idle"]
    /\ call = [c \in Callers |-> NoCall]
    /\ frame = [c \in Callers |-> EmptyFrame]
    /\ drawn = [c \in Callers |-> <<>>]
    /\ out = [c \in Callers |-> Pending]

Init ==
    /\ phase = "start"
    /\ message \in Messages
    /\ secret \in Secrets
    /\ encOut = <<>>
    /\ layout = ""
    /\ input = <<>>
    /\ tamper = NoTamper
    /\ password = <<>>
    /\ ret = Pending
    /\ kdfCalls = <<>>
    /\ CallsIdle

\* The sender calls encrypt_message(message, secret).
Encrypt ==
    /\ phase = "start"
    /\ \E gh \in generate_hash(secret) :
           encOut' = encrypt_message(message, secret, gh)
    /\ phase' = "encrypted"
    /\ UNCHANGED <<message, secret, layout, input, tamper, password, ret, kdfCalls, callVars>>

\* The sender's caller builds the envelope.
Send ==
    /\ phase = "encrypted"
    /\ \E lay \in {"code", "spec"} :
           /\ layout' = lay
           /\ input' = Envelope(lay, encOut, secret)
    /\ phase' = "wire"
    /\ UNCHANGED <<message, secret, encOut, tamper, password, ret, kdfCalls, callVars>>

CanTamper == phase = "wire" /\ layout = "code" /\ tamper = NoTamper

Tampered(kind, pos, bit, new) ==
    /\ tamper' = [kind |-> kind, pos |-> pos, bit |-> bit]
    /\ input' = new
    /\ UNCHANGED <<phase, message, secret, encOut, layout, password, ret, kdfCalls, callVars>>

\* One bit of the ciphertext portion is flipped in transit.
FlipCiphertextBit ==
    /\ CanTamper
    /\ \E i \in 1..Len(encOut[3]), bit \in 0..7 :
           Tampered("ciphertext", i, bit,
                    [input EXCEPT ![DATA_INDEX + 1] = FlipBit(@, i, bit)])

\* One hexadecimal digit of the tag prefix is changed in transit.
ChangeTagDigit ==
    /\ CanTamper
    /\ \E p \in 1..(2 * HMAC_SIZE) :
           Tampered("tag", p, 0,
                    [input EXCEPT ![DATA_INDEX + 1] = NextDigit(@, p)])

\* The iteration field is replaced in transit.
SetIterations ==
    /\ CanTamper
    /\ \E s \in IterFields :
           Tampered("iterations", 0, 0, [input EXCEPT ![ITER_INDEX + 1] = s])

\* A field is lost, or a hexadecimal field is damaged, in transit.
Malform ==
    /\ CanTamper
    /\ \/ Tampered("missing", 0, 0, SubSeq(input, 1, Len(input) - 1))
       \/ Tampered("salt", 0, 0, [input EXCEPT ![SALT_INDEX + 1] = SetChar(@, 1, 122)])
       \/ Tampered("data", 0, 0, [input EXCEPT ![DATA_INDEX + 1] = Tail(@)])

\* The recipient calls decrypt_message(pw, input).
Decrypt ==
    /\ phase = "wire"
    /\ \E pw \in Passwords :
           /\ password' = pw
           /\ ret' = decrypt_message(pw, input)
           /\ kdfCalls' = kdfCalls \o FindHashCalls(pw, input)
    /\ phase' = "done"
    /\ UNCHANGED <<message, secret, encOut, layout, input, tamper, callVars>>

Next ==
    \/ Encrypt
    \/ Send
    \/ FlipCiphertextBit
    \/ ChangeTagDigit
    \/ SetIterations
    \/ Malform
    \/ Decrypt

Spec == Init /\ [][Next]_vars

\* ------------------------------------------------------------------------
\* Several callers, each call run line by line
\* ------------------------------------------------------------------------

\* The envelope for message m under secret k, one iteration and a fixed salt.
EnvelopeFor(m, k) ==
    LET salt == [i \in 1..SALT_SIZE |-> 17]
    IN  Envelope("code", encrypt_message(m, k, <<1, salt, find_hash(1, salt, k)>>), k)

DecryptCalls ==
    {[op |-> "decrypt", password |-> pw, input |-> env, message |-> <<>>,
      secret_key |-> <<>>] :
        pw \in Secrets,
        env \in {EnvelopeFor(<<65, 233>>, <<97>>), EnvelopeFor(<<233>>, <<98>>)}}
    \cup {[op |-> "decrypt", password |-> <<97>>,
           input |-> Tail(EnvelopeFor(<<65>>, <<97>>)), message |-> <<>>,
           secret_key |-> <<>>]}

EncryptCalls ==
    {[op |-> "encrypt", password |-> <<>>, input |-> <<>>, message |-> <<65, 233>>,
      secret_key |-> <<98>>]}

\* Faulty variant: the local variables are module-level, shared by all calls.
FrameOf_Shared(c) == 1

\* The frame that holds the local variables of caller c's call: every call
\* has a frame of its own.
FrameOf(c) == c

Locals(c) == frame[FrameOf(c)]

\* Caller c's call moves to line to, with its local variables now f.
Step(c, to, f) ==
    /\ pc' = [pc EXCEPT ![c] = to]
    /\ frame' = [frame EXCEPT ![FrameOf(c)] = f]
    /\ UNCHANGED <<call, drawn, out, msgVars>>

\* Caller c's call ends with result r.
Finish(c, r) ==
    /\ pc' = [pc EXCEPT ![c] = "done"]
    /\ out' = [out EXCEPT ![c] = r]
    /\ UNCHANGED <<call, frame, drawn, msgVars>>

\* Caller c calls encrypt_message or decrypt_message.
StartCall(c) ==
    /\ pc[c] = "idle"
    /\ \E a \in DecryptCalls \cup EncryptCalls :
           /\ call' = [call EXCEPT ![c] = a]
           /\ pc' = [pc EXCEPT ![c] = IF a.op = "decrypt" THEN "d_parse" ELSE "e_hash"]
    /\ frame' = [frame EXCEPT ![FrameOf(c)] = EmptyFrame]
    /\ UNCHANGED <<drawn, out, msgVars>>

\* Line 26.
EncryptHash(c) ==
    /\ pc[c] = "e_hash"
    /\ \E gh \in generate_hash(call[c].secret_key) :
           /\ drawn' = [drawn EXCEPT ![c] = gh]
           /\ frame' = [frame EXCEPT ![FrameOf(c)] =
                  [@ EXCEPT !.iter_counter = gh[1], !.salt = gh[2], !.key = gh[3]]]
    /\ pc' = [pc EXCEPT ![c] = "e_cipher"]
    /\ UNCHANGED <<call, out, msgVars>>

\* Lines 27-30.
EncryptCipher(c) ==
    /\ pc[c] = "e_cipher"
    /\ Step(c, "e_return",
            [Locals(c) EXCEPT
                !.counter = NewCounter,
                !.ciphertext = CtrTransform(Locals(c).key, NewCounter,
                                            Encode(call[c].message))])

\* Line 32.
EncryptReturn(c) ==
    /\ pc[c] = "e_return"
    /\ Finish(c, <<Locals(c).iter_counter, Locals(c).salt, Locals(c).ciphertext>>)

\* Lines 50-52.
DecryptParse(c) ==
    /\ pc[c] = "d_parse"
    /\ IF ParseError(call[c].input) # ""
       THEN Finish(c, ParseFailure(ParseError(call[c].input)))
       ELSE Step(c, "d_key",
                 [Locals(c) EXCEPT
                     !.iter_counter = ParseIterCounter(call[c].input),
                     !.salt = ParseSalt(call[c].input),
                     !.ciphertext = ParseCiphertext(call[c].input)])

\* Lines 54-56.
DecryptKey(c) ==
    /\ pc[c] = "d_key"
    /\ Step(c, "d_cipher",
            [Locals(c) EXCEPT
                !.counter = NewCounter,
                !.key = find_hash(Locals(c).iter_counter, Locals(c).salt,
                                  call[c].password)])

\* Line 58.
DecryptCipher(c) ==
    /\ pc[c] = "d_cipher"
    /\ Step(c, "d_decode",
            [Locals(c) EXCEPT
                !.decrypted_msg = CtrTransform(Locals(c).key, Locals(c).counter,
                                               Locals(c).ciphertext)])

\* Line 61, and lines 72-75 when decode() raises.
DecryptDecode(c) ==
    /\ pc[c] = "d_decode"
    /\ IF ~CanDecode(Locals(c).decrypted_msg)
       THEN Finish(c, DecodeFailure(Locals(c).decrypted_msg))
       ELSE Step(c, "d_hmac",
                 [Locals(c) EXCEPT !.decrypted_msg = Decode(Locals(c).decrypted_msg)])

\* Lines 62-63.
DecryptHmac(c) ==
    /\ pc[c] = "d_hmac"
    /\ Step(c, "d_return",
            [Locals(c) EXCEPT
                !.hmac_received = HmacReceived(call[c].input),
                !.hmac_value = HmacValue(Locals(c).ciphertext, call[c].password)])

\* Lines 69-71.
DecryptReturn(c) ==
    /\ pc[c] = "d_return"
    /\ Finish(c, Return(Some(Locals(c).decrypted_msg),
                        Some(HmacValidity(Locals(c).hmac_received,
                                          Locals(c).hmac_value))))

\* The caller takes the result; the call's frame is gone.
EndCall(c) ==
    /\ pc[c] = "done"
    /\ pc' = [pc EXCEPT ![c] = "idle"]
    /\ call' = [call EXCEPT ![c] = NoCall]
    /\ drawn' = [drawn EXCEPT ![c] = <<>>]
    /\ out' = [out EXCEPT ![c] = Pending]
    /\ frame' = [frame EXCEPT ![FrameOf(c)] = EmptyFrame]
    /\ UNCHANGED msgVars

ConcInit ==
    /\ phase = "calls"
    /\ message = <<>>
    /\ secret = <<>>
    /\ encOut = <<>>
    /\ layout = ""
    /\ input = <<>>
    /\ tamper = NoTamper
    /\ password = <<>>
    /\ ret = Pending
    /\ kdfCalls = <<>>
    /\ CallsIdle

ConcNext ==
    \E c \in Callers :
        \/ StartCall(c)
        \/ EncryptHash(c)
        \/ EncryptCipher(c)
        \/ EncryptReturn(c)
        \/ DecryptParse(c)
        \/ DecryptKey(c)
        \/ DecryptCipher(c)
        \/ DecryptDecode(c)
        \/ DecryptHmac(c)
        \/ DecryptReturn(c)
        \/ EndCall(c)

ConcSpec == ConcInit /\ [][ConcNext]_vars

\* ------------------------------------------------------------------------
\* Properties
\* ------------------------------------------------------------------------

\* The recipient has decrypted the envelope as the sender's caller built it,
\* with the fields where decrypt_message reads them.
Untouched == phase = "done" /\ layout = "code" /\ tamper = NoTamper

\* C1: round trip.  Decrypting the untouched envelope with the sender's secret
\* returns the sender's message and tag validity True.
C1_RoundTrip ==
    (Untouched /\ password = secret) => ret = Return(Some(message), Some(TRUE))

C1_Witness ==
    /\ Untouched
    /\ password = secret
    /\ Len(message) = MaxMsgLen
    /\ 233 \in {message[i] : i \in 1..Len(message)}
    /\ ret = Return(Some(message), Some(TRUE))

\* C2: wrong password.  Decrypting the untouched envelope with another
\* password returns (None, None) or a text with tag validity False, and never
\* the sender's message with tag validity True.
C2_WrongPassword ==
    (Untouched /\ password # secret) =>
        /\ \/ ret = NoneNone
           \/ ret.kind = "return" /\ ret.msg # None /\ ret.valid = Some(FALSE)
        /\ ret # Return(Some(message), Some(TRUE))

C2_Witness ==
    /\ Untouched
    /\ password # secret
    /\ message # <<>>
    /\ ret.kind = "return"
    /\ ret.msg # None
    /\ ret.valid = Some(FALSE)

\* C3: tamper detection.  After one bit of the ciphertext portion is flipped,
\* decrypting with the sender's secret never returns tag validity True.
C3_TamperDetected ==
    (phase = "done" /\ tamper.kind = "ciphertext" /\ password = secret) =>
        /\ ret.kind = "return"
        /\ ret.valid # Some(TRUE)

C3_Witness ==
    /\ phase = "done"
    /\ tamper.kind = "ciphertext"
    /\ password = secret
    /\ ret.kind = "return"
    /\ ret.msg # None
    /\ ret.valid = Some(FALSE)

\* C4: an iteration count above the limit is rejected before key derivation:
\* hf.find_hash is never called with more than IterationLimit iterations.
C4_IterationsBounded ==
    \A i \in 1..Len(kdfCalls) : kdfCalls[i] <= IterationLimit

\* A field decrypt_message reads is missing, the iteration count is no
\* integer, or the salt or the tag || ciphertext field is not hexadecimal.
Malformed(env) ==
    \/ Len(env) < DATA_INDEX + 1
    \/ ~IsIntLiteral(env[ITER_INDEX + 1])
    \/ ~CanFromHex(env[SALT_INDEX + 1])
    \/ ~CanFromHex(env[DATA_INDEX + 1])

\* C5: a malformed envelope makes decrypt_message raise a parse error, and
\* (None, None) is returned only for a well-formed envelope whose decrypted
\* bytes are not text.
C5_MalformedRaises ==
    phase = "done" =>
        /\ Malformed(input) =>
               ret.kind = "raise" /\ ret.exc \in {"IndexError", "ValueError"}
        /\ ret = NoneNone =>
               ~Malformed(input) /\ ~CanDecode(DecryptedBytes(password, input))

C5_Witness ==
    /\ phase = "done"
    /\ tamper.kind \in {"missing", "salt", "data"}
    /\ Malformed(input)
    /\ ret.kind = "raise"

\* C6: when the decrypted bytes are not valid text the result is exactly
\* (None, None), and the two components of a result are absent together or
\* present together.
C6_DecodeFailure ==
    phase = "done" =>
        /\ (~Malformed(input) /\ ~CanDecode(DecryptedBytes(password, input))) =>
               ret = NoneNone
        /\ (ret.msg = None) <=> (ret.valid = None)

C6_Witness ==
    /\ phase = "done"
    /\ ~Malformed(input)
    /\ ~CanDecode(DecryptedBytes(password, input))
    /\ ret = NoneNone

\* The tag received: the HMAC_SIZE bytes removed from the field to obtain the
\* ciphertext.  The tag recomputed: the whole tag over that ciphertext.
ReceivedTag(env) == Take(FromHex(env[DATA_INDEX + 1]), HMAC_SIZE)

RecomputedTag(pw, env) == FromHex(calculate_hmac(ParseCiphertext(env), pw))

\* C7: whenever the decrypted bytes decode to text, the result is that text
\* and a tag validity that is True exactly when the recomputed tag equals the
\* received tag.
C7_TagValidity ==
    (phase = "done" /\ ~Malformed(input)
        /\ CanDecode(DecryptedBytes(password, input))) =>
        ret = Return(Some(Decode(DecryptedBytes(password, input))),
                     Some(ReceivedTag(input) = RecomputedTag(password, input)))

\* C8: the three-field envelope (iterations, salt, tag || ciphertext) is
\* parsed and decrypted.
C8_ThreeFields ==
    (phase = "done" /\ layout = "spec") => ret.kind = "return"

\* C9: changing any digit of the tag prefix of a valid envelope makes the
\* tag validity False.
C9_TagPrefixCompared ==
    (phase = "done" /\ tamper.kind = "tag" /\ password = secret) =>
        ret.valid = Some(FALSE)

\* What caller c's call returns when it runs alone.
Alone(c) ==
    IF call[c].op = "decrypt"
    THEN decrypt_message(call[c].password, call[c].input)
    ELSE encrypt_message(call[c].message, call[c].secret_key, drawn[c])

\* C10: under every interleaving, each finished call has returned what it
\* returns when it runs alone on its own arguments.
C10_Independent ==
    \A c \in Callers : pc[c] = "done" => out[c] = Alone(c)

C10_Witness ==
    \E c, d \in Callers :
        /\ c # d
        /\ pc[c] = "done"
        /\ call[c].op = "decrypt"
        /\ out[c].kind = "return"
        /\ out[c].valid = Some(TRUE)
        /\ pc[d] \in {"d_cipher", "d_decode", "d_hmac", "d_return"}
        /\ call[d].input # call[c].input

====
